---- MODULE Spec2Model ----
(***************************************************************************)
(* The parallel runners of tooling/: parallel_test.py (ParallelTestRunner), *)
(* parallel_lint.py (ParallelLintRunner) and parallel_acceptance_test.py   *)
(* (ParallelAcceptanceRunner).  Each runner is an asyncio program: one     *)
(* coroutine per task, run by a single-threaded event loop.  An action of  *)
(* this module is one uninterrupted run of a coroutine, from the point     *)
(* where the event loop resumes it to its next suspension (an await that   *)
(* cannot complete at once) or to its end.                                 *)
(***************************************************************************)
EXTENDS Integers, Sequences, FiniteSets, TLC

\* ------------------------------------------------------------------ bounds
NumSuites == 3          \* size of the suite table handed to main()
MaxParallel == 2        \* largest --max-parallel value explored
MaxDeps == 2            \* longest depends_on list explored
MaxAnyDeps == 1         \* longest depends_on list explored in ill-formed tables
NumCategories == 2      \* size of the lint category table
MaxModules == 2         \* most go.mod directories found by find_go_modules
NumPatterns == 2        \* most pattern directories found by discover_pattern_tests
MaxLines == 1           \* most lines of `go test -v` output a pattern run prints
MaxParseLines == 2      \* most lines of a text handed to _parse_go_test_output alone
MaxReportPatterns == 3  \* most patterns in a report handed to the ReportFormatter alone

\* ------------------------------------------------------- program constants
DefaultTimeout == 300   \* TestSuite.timeout default

Suites == 1..NumSuites
Categories == 1..NumCategories
Patterns == 1..NumPatterns
NoGroup == 0            \* parallel_group = None
Groups == {1}           \* parallel_group names
NoLock == -1            \* the group has no entry in parallel_groups yet
Unlocked == 0           \* the group's asyncio.Lock is free
NoCode == -2            \* return_code = None
NoExit == -1            \* the process has not exited

Pending == "pending"
Running == "running"
Passed == "passed"
Failed == "failed"
Skipped == "skipped"
\* TestStatus: the members of the enum
TestStatus == {Pending, Running, Passed, Failed, Skipped}
Terminal == {Passed, Failed, Skipped}

NoMessage == <<"none">>
DependencyMessage(dep) == <<"Dependency did not pass", dep>>
FailFastMessage == <<"Skipped due to fail-fast">>
TimeoutMessage(secs) == <<"Timeout after", secs>>
\* No report has been written or formatted.
NoReport == [written |-> FALSE]

ExceptionMessage == <<"exception">>

VARIABLES
    runner,             \* the program that runs: "test" | "lint" | "acceptance"
    phase,              \* "main" | "running" | "exited": position of main()
    exit_code,          \* the process exit code, NoExit until main returns
    selected,           \* the suites left by the --fast/--categories/--suites filters
    suites,             \* ParallelTestRunner.suites (indices into the table)
    name,               \* TestSuite.name of each table entry
    depends_on,         \* TestSuite.depends_on: a list of names
    parallel_group,     \* TestSuite.parallel_group
    timeout,            \* TestSuite.timeout
    fail_fast,          \* ParallelTestRunner.fail_fast
    max_parallel,       \* ParallelTestRunner.max_parallel
    semaphore,          \* free slots of ParallelTestRunner.semaphore
    parallel_groups,    \* ParallelTestRunner.parallel_groups: group -> holder (0 = unlocked)
    failed,             \* ParallelTestRunner.failed
    results,            \* keys of ParallelTestRunner.results
    completion_events,  \* ParallelTestRunner.completion_events: name -> is set
    status,             \* TestSuite.status
    error_message,      \* TestSuite.error_message
    return_code,        \* TestSuite.return_code
    log_file,           \* TestSuite.log_file is not None
    logs,               \* the log files that exist on disk
    pc,                 \* where each run_suite coroutine is suspended
    dep,                \* position of the `for dep in suite.depends_on` loop
    proc,               \* the spawned process of each suite
    overran,            \* suite.timeout elapsed after suite.start_time with the process alive
    go_modules,         \* len(find_go_modules(base_dir))
    lint,               \* each LintCategory's fields and the position of its run_category
    sequential,         \* --sequential
    acc,                \* each run_pattern_tests coroutine: its position and its return value
    report,             \* the AcceptanceReport main() formats: its results
    formatted,          \* what the ReportFormatter made of the report for main()
    json_report,        \* test-report.json as _generate_json_report wrote it
    go_output,          \* the text handed to _parse_go_test_output, as lines
    go_results          \* what _parse_go_test_output returned for it

registry == <<runner, selected, name, depends_on, parallel_group, timeout, fail_fast, max_parallel>>
fields == <<status, error_message, return_code, log_file>>
shared == <<semaphore, parallel_groups, failed, results, completion_events>>
clock == <<overran>>
testVars == <<suites, fields, parallel_groups, failed, results, completion_events, logs, pc, dep, proc, clock, json_report>>
lintVars == <<go_modules, lint>>
parserVars == <<go_output, go_results>>
accVars == <<sequential, acc, report, formatted, parserVars>>
vars == <<phase, exit_code, suites, registry, fields, shared, logs, pc, dep, proc, clock, json_report, lintVars, accVars>>

\* ------------------------------------------------------------ the registry
\* Lists of distinct names of length at most MaxDeps.
RECURSIVE DepLists(_, _)
DepLists(names, n) ==
    IF n = 0 THEN {<<>>}
    ELSE LET shorter == DepLists(names, n - 1)
         IN shorter \cup {Append(l, x) : l \in {s \in shorter : Len(s) = n - 1},
                                         x \in names}

Range(l) == {l[i] : i \in 1..Len(l)}
Distinct(l) == Cardinality(Range(l)) = Len(l)

\* The names a runner built from the suites in S knows.
NamesOf(S) == {name[s] : s \in S}

\* dep_suite = next((s for s in self.suites if s.name == dep), None)
HasSuite(d) == \E s \in suites : name[s] = d
DepSuite(d) == CHOOSE s \in suites : name[s] = d /\ \A r \in suites : name[r] = d => s <= r

\* A dependency cycle among the suites in S (depth-first reachability by name).
RECURSIVE Reach(_, _, _)
Reach(S, from, n) ==
    IF n = 0 THEN from
    ELSE Reach(S, from \cup {s \in S : \E r \in from : name[s] \in Range(depends_on[r])}, n - 1)
DependsOnTransitively(S, r) ==
    Reach(S, {s \in S : name[s] \in Range(depends_on[r])}, NumSuites)
Cyclic(S) == \E s \in S : s \in DependsOnTransitively(S, s)
Unresolved(S) == \E s \in S : \E d \in Range(depends_on[s]) : d \notin NamesOf(S)
DuplicateNames(S) == \E s, r \in S : s # r /\ name[s] = name[r]
WellFormed(S) == ~Cyclic(S) /\ ~Unresolved(S) /\ ~DuplicateNames(S)

\* ------------------------------------------------------------------- Init
TypeOK ==
    /\ phase \in {"main", "running", "exited"}
    /\ exit_code \in {NoExit, 0, 1}
    /\ suites \subseteq Suites
    /\ semaphore \in 0..MaxParallel
    /\ status \in [Suites -> TestStatus]
    /\ pc \in [Suites -> {"init", "wait_dep", "wait_sem", "wait_lock", "spawn", "read", "wait", "done"}]
    /\ proc \in [Suites -> {"none", "open", "closed", "exit0", "exit1", "killed"}]

NewCategory ==
    [status |-> Pending, error |-> NoMessage, issues |-> FALSE, returncode |-> NoCode,
     pc |-> "init", module |-> 1]
NewPattern == [pc |-> "init", results |-> <<>>, returncode |-> NoCode]

\* The runtime state of the three programs before main() has run: nothing
\* constructed, every TestSuite and LintCategory in its declared state.
InitIdle ==
    /\ phase = "main"
    /\ exit_code = NoExit
    /\ suites = {}
    /\ timeout = [s \in Suites |-> DefaultTimeout]
    /\ semaphore = 0
    /\ parallel_groups = [g \in Groups |-> NoLock]
    /\ failed = FALSE
    /\ results = {}
    /\ completion_events = [n \in {} |-> FALSE]
    /\ status = [s \in Suites |-> Pending]
    /\ error_message = [s \in Suites |-> NoMessage]
    /\ return_code = [s \in Suites |-> NoCode]
    /\ log_file = [s \in Suites |-> FALSE]
    /\ logs = {}
    /\ pc = [s \in Suites |-> "init"]
    /\ dep = [s \in Suites |-> 1]
    /\ proc = [s \in Suites |-> "none"]
    /\ overran = [s \in Suites |-> FALSE]
    /\ lint = [c \in Categories |-> NewCategory]
    /\ acc = [p \in Patterns |-> NewPattern]
    /\ formatted = NoReport
    /\ json_report = NoReport

\* The inputs of the other two programs, while the test runner runs.
NoLintInput == go_modules = 0
NoAccInput == sequential = FALSE
NoParse == [returned |-> FALSE, results |-> <<>>]
NoParserInput == go_output = <<>> /\ go_results = NoParse
NoTestInput ==
    /\ name = [s \in Suites |-> s]
    /\ depends_on = [s \in Suites |-> <<>>]
    /\ parallel_group = [s \in Suites |-> NoGroup]

\* A table and a filter of any shape: the second suite may carry the name of
\* the first, and a dependency may name any suite of the table, the suite itself
\* and suites the filter removed included.  The suites share a group or none.
InitAny ==
    /\ InitIdle /\ report = NoReport /\ NoLintInput /\ NoAccInput /\ NoParserInput
    /\ runner = "test"
    /\ name \in [Suites -> Suites]
    /\ \A s \in Suites : name[s] = s \/ (s = 2 /\ name[s] = 1)
    /\ depends_on \in [Suites -> DepLists(Suites, MaxAnyDeps)]
    /\ selected \in SUBSET Suites
    /\ parallel_group \in {[s \in Suites |-> IF s \in selected THEN g ELSE NoGroup] :
                              g \in {NoGroup} \cup Groups}
    /\ \A s \in Suites \ selected : depends_on[s] = <<>> /\ name[s] = s
    /\ fail_fast \in BOOLEAN
    /\ max_parallel = MaxParallel

\* A table whose selected part is a well-formed registry: unique names, every
\* dependency selected, no cycle.  What the filter removed plays no part.
InitTest ==
    /\ InitIdle /\ report = NoReport /\ NoLintInput /\ NoAccInput /\ NoParserInput
    /\ runner = "test"
    /\ name = [s \in Suites |-> s]
    /\ depends_on \in [Suites -> {l \in DepLists(Suites, MaxDeps) : Distinct(l)}]
    /\ selected \in SUBSET Suites
    /\ WellFormed(selected)
    /\ parallel_group \in [Suites -> {NoGroup} \cup Groups]
    /\ \A s \in Suites \ selected : depends_on[s] = <<>> /\ parallel_group[s] = NoGroup
    /\ fail_fast \in BOOLEAN
    /\ max_parallel \in 1..MaxParallel

\* ------------------------------------------------------------------ main()
\* main(): filter the table, give up when nothing is left, else build the runner.
Main ==
    /\ runner = "test"
    /\ phase = "main"
    /\ suites' = selected
    /\ IF selected = {}
       THEN /\ phase' = "exited"
            /\ exit_code' = 1
            /\ UNCHANGED <<semaphore, completion_events>>
       ELSE /\ phase' = "running"
            /\ exit_code' = exit_code
            /\ semaphore' = max_parallel
            /\ completion_events' = [n \in NamesOf(selected) |-> FALSE]
    /\ UNCHANGED <<registry, json_report, fields, parallel_groups, failed, results, logs, pc, dep, proc, clock, lintVars, accVars>>

\* -------------------------------------------------------------- run_suite()
\* Known, were no dependency ever found in completion_events.
Known_Never(d) == FALSE

\* `if dep in self.completion_events`
Known(d) == d \in DOMAIN completion_events

\* DidNotPass, were only a FAILED dependency to count.
DidNotPass_OnlyFailed(d) == HasSuite(d) /\ status[DepSuite(d)] = Failed

\* `dep_suite and dep_suite.status != TestStatus.PASSED`
DidNotPass(d) == HasSuite(d) /\ status[DepSuite(d)] # Passed

\* The dependency loop of run_suite from position i: where it suspends
\* ("wait"), where it gives up ("skip"), or that it ran to its end ("ok").
RECURSIVE DepScan(_, _)
DepScan(t, i) ==
    IF i > Len(depends_on[t]) THEN [kind |-> "ok", idx |-> i]
    ELSE LET d == depends_on[t][i]
         IN IF ~Known(d) THEN DepScan(t, i + 1)
            ELSE IF ~completion_events[d] THEN [kind |-> "wait", idx |-> i]
            ELSE IF DidNotPass(d) THEN [kind |-> "skip", idx |-> i]
            ELSE DepScan(t, i + 1)

\* `if self.fail_fast and self.failed`
FailFastTripped == fail_fast /\ failed

\* SlotsAfterAcquire, were a suite to pass the semaphore without taking a slot.
SlotsAfterAcquire_NotTaken == semaphore

\* SlotsAfterRelease, were a slot given back twice.
SlotsAfterRelease_Twice == semaphore + 2

\* SlotsAfterRelease, were a finished suite to keep its slot.
SlotsAfterRelease_Kept == semaphore

\* asyncio.Semaphore.acquire completes at once iff a slot is free.
SlotFree == semaphore > 0
SlotsAfterAcquire == semaphore - 1
SlotsAfterRelease == semaphore + 1

\* WithLock, were a new asyncio.Lock stored on every call.
WithLock_Fresh(g) == [parallel_groups EXCEPT ![g] = Unlocked]

\* The lock table once `suite.parallel_group not in self.parallel_groups` has
\* created the missing lock.
WithLock(g) ==
    IF parallel_groups[g] = NoLock THEN [parallel_groups EXCEPT ![g] = Unlocked]
    ELSE parallel_groups

\* asyncio.Lock.acquire completes at once iff the lock is free.
LockFree(table, g) == table[g] = Unlocked

\* Admitted, were the group lock awaited before the slot is taken.
Admitted_LockFirst(t, slots) ==
    LET g == parallel_group[t]
    IN IF g = NoGroup
       THEN [to |-> "spawn", idx |-> dep[t], msg |-> NoMessage, sem |-> slots,
             groups |-> parallel_groups]
       ELSE IF LockFree(WithLock(g), g)
       THEN [to |-> "spawn", idx |-> dep[t], msg |-> NoMessage, sem |-> slots,
             groups |-> [WithLock(g) EXCEPT ![g] = t]]
       ELSE [to |-> "wait_lock", idx |-> dep[t], msg |-> NoMessage, sem |-> semaphore,
             groups |-> WithLock(g)]

\* From a taken slot to the next suspension: the group lock, then _execute_suite
\* up to create_subprocess_shell.
Admitted(t, slots) ==
    LET g == parallel_group[t]
    IN IF g = NoGroup
       THEN [to |-> "spawn", idx |-> dep[t], msg |-> NoMessage, sem |-> slots,
             groups |-> parallel_groups]
       ELSE IF LockFree(WithLock(g), g)
       THEN [to |-> "spawn", idx |-> dep[t], msg |-> NoMessage, sem |-> slots,
             groups |-> [WithLock(g) EXCEPT ![g] = t]]
       ELSE [to |-> "wait_lock", idx |-> dep[t], msg |-> NoMessage, sem |-> slots,
             groups |-> WithLock(g)]

\* AfterDependencies, were the fail-fast check made inside the semaphore.
AfterDependencies_InsideSlot(t) ==
    IF ~SlotFree
    THEN [to |-> "wait_sem", idx |-> dep[t], msg |-> NoMessage, sem |-> semaphore,
          groups |-> parallel_groups]
    ELSE IF FailFastTripped
    THEN [to |-> "done", idx |-> dep[t], msg |-> FailFastMessage, sem |-> SlotsAfterAcquire,
          groups |-> parallel_groups]
    ELSE Admitted(t, SlotsAfterAcquire)

\* From the fail-fast check to the next suspension.
AfterDependencies(t) ==
    IF FailFastTripped
    THEN [to |-> "done", idx |-> dep[t], msg |-> FailFastMessage, sem |-> semaphore,
          groups |-> parallel_groups]
    ELSE IF SlotFree THEN Admitted(t, SlotsAfterAcquire)
    ELSE [to |-> "wait_sem", idx |-> dep[t], msg |-> NoMessage, sem |-> semaphore,
          groups |-> parallel_groups]

\* run_suite from position i of its dependency loop to the next suspension.
FromDependency(t, i) ==
    LET sc == DepScan(t, i)
    IN CASE sc.kind = "wait" ->
              [to |-> "wait_dep", idx |-> sc.idx, msg |-> NoMessage, sem |-> semaphore,
               groups |-> parallel_groups]
         [] sc.kind = "skip" ->
              [to |-> "done", idx |-> sc.idx, msg |-> DependencyMessage(depends_on[t][sc.idx]),
               sem |-> semaphore, groups |-> parallel_groups]
         [] OTHER -> AfterDependencies(t)

\* The state after a run of run_suite that ends as `o` says: suspended, skipped
\* (with the finally clause setting the completion event), or in _execute_suite.
Proceed(t, o) ==
    /\ pc' = [pc EXCEPT ![t] = o.to]
    /\ dep' = [dep EXCEPT ![t] = o.idx]
    /\ semaphore' = o.sem
    /\ parallel_groups' = o.groups
    /\ status' = [status EXCEPT ![t] = CASE o.to = "done" -> Skipped
                                         [] o.to = "spawn" -> Running
                                         [] OTHER -> @]
    /\ error_message' = [error_message EXCEPT ![t] = IF o.to = "done" THEN o.msg ELSE @]
    /\ log_file' = [log_file EXCEPT ![t] = IF o.to = "spawn" THEN TRUE ELSE @]
    /\ completion_events' = [completion_events EXCEPT ![name[t]] = IF o.to = "done" THEN TRUE ELSE @]
    /\ UNCHANGED <<phase, exit_code, suites, registry, json_report, return_code, failed, results, logs, proc, clock, lintVars, accVars>>

\* asyncio.gather schedules the coroutines in the order of self.suites, and the
\* event loop runs its ready queue in order: the first step of every run_suite
\* is run, in list order, before any coroutine is resumed.
Started(t) == pc[t] # "init"
AllStarted == \A t \in suites : Started(t)

\* The event loop runs the first step of run_suite(t).
Start(t) ==
    /\ phase = "running"
    /\ t \in suites
    /\ pc[t] = "init"
    /\ \A u \in suites : u < t => Started(u)
    /\ Proceed(t, FromDependency(t, 1))

\* The awaited completion event is set: the loop goes on with this dependency.
DependencyDone(t) ==
    /\ AllStarted
    /\ pc[t] = "wait_dep"
    /\ completion_events[depends_on[t][dep[t]]]
    /\ Proceed(t, FromDependency(t, dep[t]))

\* A slot is free for a suite waiting in `async with self.semaphore`.
SlotGranted(t) ==
    /\ AllStarted
    /\ pc[t] = "wait_sem"
    /\ SlotFree
    /\ Proceed(t, Admitted(t, SlotsAfterAcquire))

\* The group's lock is free for a suite waiting in `async with lock`.
LockGranted(t) ==
    /\ AllStarted
    /\ pc[t] = "wait_lock"
    /\ LockFree(parallel_groups, parallel_group[t])
    /\ Proceed(t, [to |-> "spawn", idx |-> dep[t], msg |-> NoMessage, sem |-> semaphore,
                   groups |-> [parallel_groups EXCEPT ![parallel_group[t]] = t]])

\* ---------------------------------------------------------- _execute_suite()
\* StatusOf, were a suite that passed put back to PENDING.
StatusOf_Reset(rc) == IF rc = 0 THEN Pending ELSE Failed

\* `if suite.return_code == 0` ... PASSED, else FAILED
StatusOf(rc) == IF rc = 0 THEN Passed ELSE Failed

\* The end of _execute_suite (status, failed flag, results) and the way out of
\* run_suite: the lock and the slot are released, the completion event is set.
Finish(t, rc, msg) ==
    /\ return_code' = [return_code EXCEPT ![t] = rc]
    /\ error_message' = [error_message EXCEPT ![t] = msg]
    /\ status' = [status EXCEPT ![t] = StatusOf(rc)]
    /\ failed' = (failed \/ StatusOf(rc) = Failed)
    /\ results' = results \cup {name[t]}
    /\ parallel_groups' = IF parallel_group[t] = NoGroup THEN parallel_groups
                          ELSE [parallel_groups EXCEPT ![parallel_group[t]] = Unlocked]
    /\ semaphore' = SlotsAfterRelease
    /\ completion_events' = [completion_events EXCEPT ![name[t]] = TRUE]
    /\ pc' = [pc EXCEPT ![t] = "done"]
    /\ UNCHANGED <<phase, exit_code, suites, registry, json_report, log_file, dep, lintVars, accVars>>

\* create_subprocess_shell returns; the log file is opened and readline awaited.
Spawned(t) ==
    /\ AllStarted
    /\ pc[t] = "spawn"
    /\ pc' = [pc EXCEPT ![t] = "read"]
    /\ proc' = [proc EXCEPT ![t] = "open"]
    /\ logs' = logs \cup {t}
    /\ UNCHANGED <<phase, exit_code, suites, registry, json_report, fields, shared, dep, clock, lintVars, accVars>>

\* create_subprocess_shell raises: `except Exception as e`.
SpawnFails(t) ==
    /\ AllStarted
    /\ pc[t] = "spawn"
    /\ Finish(t, -1, ExceptionMessage)
    /\ UNCHANGED <<logs, proc, clock>>

\* readline returns b"": the process's end of the pipe is closed.
ReadEOF(t) ==
    /\ pc[t] = "read"
    /\ proc[t] \in {"closed", "exit0", "exit1"}
    /\ pc' = [pc EXCEPT ![t] = "wait"]
    /\ UNCHANGED <<phase, exit_code, suites, registry, json_report, fields, shared, logs, dep, proc, clock, lintVars, accVars>>

\* wait_for(process.wait(), timeout) returns the exit status.
WaitReturns(t) ==
    /\ pc[t] = "wait"
    /\ proc[t] \in {"exit0", "exit1"}
    /\ Finish(t, IF proc[t] = "exit0" THEN 0 ELSE 1, error_message[t])
    /\ UNCHANGED <<logs, proc, clock>>

\* wait_for raises TimeoutError, suite.timeout after it was called: kill.
WaitTimesOut(t) ==
    /\ pc[t] = "wait"
    /\ proc[t] = "closed"
    /\ proc' = [proc EXCEPT ![t] = "killed"]
    /\ overran' = [overran EXCEPT ![t] = TRUE]
    /\ Finish(t, -1, TimeoutMessage(timeout[t]))
    /\ UNCHANGED logs

\* -------------------------------------------------- the spawned processes
\* The process closes its standard output and goes on running.
ProcClosesOutput(t) ==
    /\ proc[t] = "open"
    /\ proc' = [proc EXCEPT ![t] = "closed"]
    /\ UNCHANGED <<phase, exit_code, suites, registry, json_report, fields, shared, logs, pc, dep, clock, lintVars, accVars>>

\* The process exits with return code rc.
ProcExits(t, rc) ==
    /\ proc[t] \in {"open", "closed"}
    /\ proc' = [proc EXCEPT ![t] = IF rc = 0 THEN "exit0" ELSE "exit1"]
    /\ UNCHANGED <<phase, exit_code, suites, registry, json_report, fields, shared, logs, pc, dep, clock, lintVars, accVars>>

\* suite.timeout seconds have passed since suite.start_time was taken, and the
\* process is still alive.  Nothing in the runner is waiting for this instant.
TimeoutElapses(t) ==
    /\ status[t] = Running
    /\ proc[t] \in {"open", "closed"}
    /\ ~overran[t]
    /\ overran' = [overran EXCEPT ![t] = TRUE]
    /\ UNCHANGED <<phase, exit_code, suites, registry, json_report, fields, shared, logs, pc, dep, proc, lintVars, accVars>>

\* ---------------------------------------------------- run_all / print_summary
Count(st) == Cardinality({s \in suites : status[s] = st})

\* print_summary: `if failed == 0: return True`; main: `0 if success else 1`.
SummaryExit == IF Count(Failed) = 0 THEN 0 ELSE 1

\* _generate_json_report: one entry per suite of self.suites, and the summary.
SuiteEntry(s) ==
    [name |-> name[s], status |-> status[s], return_code |-> return_code[s],
     error_message |-> error_message[s], log_file |-> log_file[s]]

\* JsonReport, were the total taken from the whole table, not the suites run.
JsonReport_WholeTable ==
    [written |-> TRUE,
     suites |-> [s \in suites |-> SuiteEntry(s)],
     summary |-> [total |-> Cardinality(Suites), passed |-> Count(Passed),
                  failed |-> Count(Failed), skipped |-> Count(Skipped)]]

JsonReport ==
    [written |-> TRUE,
     suites |-> [s \in suites |-> SuiteEntry(s)],
     summary |-> [total |-> Cardinality(suites), passed |-> Count(Passed),
                  failed |-> Count(Failed), skipped |-> Count(Skipped)]]

\* asyncio.gather returns once every run_suite has returned.
RunAllReturns ==
    /\ runner = "test"
    /\ phase = "running"
    /\ \A t \in suites : pc[t] = "done"
    /\ phase' = "exited"
    /\ exit_code' = SummaryExit
    /\ json_report' = JsonReport
    /\ UNCHANGED <<suites, registry, fields, shared, logs, pc, dep, proc, clock, lintVars, accVars>>

\* One resumption of run_suite(t) by the event loop.
Step(t) ==
    \/ Start(t) \/ DependencyDone(t) \/ SlotGranted(t) \/ LockGranted(t)
    \/ Spawned(t) \/ SpawnFails(t) \/ ReadEOF(t) \/ WaitReturns(t) \/ WaitTimesOut(t)

\* What the runner and its processes do, the passing of time left aside.
SchedulerNext ==
    \/ Main
    \/ RunAllReturns
    \/ \E t \in Suites :
        \/ Step(t)
        \/ ProcClosesOutput(t)
        \/ \E rc \in {0, 1} : ProcExits(t, rc)

TestNext ==
    \/ SchedulerNext
    \/ \E t \in Suites : TimeoutElapses(t)

\* ====================================================== parallel_lint.py
NoModulesMessage == <<"No Go modules found">>

\* self.categories once run() has filtered LINT_CATEGORIES
LintCategories == selected

\* run(): `if not self.categories: return False`, else the categories are run.
LintMain ==
    /\ runner = "lint"
    /\ phase = "main"
    /\ IF selected = {}
       THEN /\ phase' = "exited"
            /\ exit_code' = 1
            /\ UNCHANGED semaphore
       ELSE /\ phase' = "running"
            /\ exit_code' = exit_code
            /\ semaphore' = max_parallel
    /\ UNCHANGED <<registry, testVars, lintVars, accVars>>

\* LintAdmitted, were fail_fast to skip a category once another has failed.
LintAdmitted_FailFast(c) ==
    IF go_modules = 0 \/ (fail_fast /\ \E b \in LintCategories : lint[b].status = Failed)
    THEN /\ lint' = [lint EXCEPT ![c].status = Skipped, ![c].error = NoModulesMessage,
                                 ![c].pc = "done"]
         /\ UNCHANGED semaphore
    ELSE /\ lint' = [lint EXCEPT ![c].status = Running, ![c].pc = "spawn"]
         /\ semaphore' = SlotsAfterAcquire

\* run_category from the taken slot: RUNNING, then find_go_modules; with no
\* module the category is SKIPPED and the slot given back in the same run.
LintAdmitted(c) ==
    IF go_modules = 0
    THEN /\ lint' = [lint EXCEPT ![c].status = Skipped, ![c].error = NoModulesMessage,
                                 ![c].pc = "done"]
         /\ UNCHANGED semaphore
    ELSE /\ lint' = [lint EXCEPT ![c].status = Running, ![c].pc = "spawn"]
         /\ semaphore' = SlotsAfterAcquire

LintStarted(c) == lint[c].pc # "init"
AllLintStarted == \A c \in LintCategories : LintStarted(c)

LintStart(c) ==
    /\ runner = "lint"
    /\ phase = "running"
    /\ c \in LintCategories
    /\ lint[c].pc = "init"
    /\ \A b \in LintCategories : b < c => LintStarted(b)
    /\ IF SlotFree THEN LintAdmitted(c)
       ELSE /\ lint' = [lint EXCEPT ![c].pc = "wait_sem"]
            /\ UNCHANGED semaphore
    /\ UNCHANGED <<phase, exit_code, registry, testVars, go_modules, accVars>>

LintSlotGranted(c) ==
    /\ runner = "lint"
    /\ AllLintStarted
    /\ lint[c].pc = "wait_sem"
    /\ SlotFree
    /\ LintAdmitted(c)
    /\ UNCHANGED <<phase, exit_code, registry, testVars, go_modules, accVars>>

\* create_subprocess_exec returns for the current module.
LintSpawned(c) ==
    /\ runner = "lint"
    /\ AllLintStarted
    /\ lint[c].pc = "spawn"
    /\ lint' = [lint EXCEPT ![c].pc = "communicate"]
    /\ UNCHANGED <<phase, exit_code, registry, testVars, semaphore, go_modules, accVars>>

\* create_subprocess_exec raises: `except Exception as e`.
LintSpawnFails(c) ==
    /\ runner = "lint"
    /\ AllLintStarted
    /\ lint[c].pc = "spawn"
    /\ lint' = [lint EXCEPT ![c].status = Failed, ![c].error = ExceptionMessage, ![c].pc = "done"]
    /\ semaphore' = SlotsAfterRelease
    /\ UNCHANGED <<phase, exit_code, registry, testVars, go_modules, accVars>>

\* `if all_issues` ... FAILED, else PASSED
LintStatusOf(issues) == IF issues THEN Failed ELSE Passed

\* communicate() returns: the linter exited with rc, its JSON listing issues
\* or none; after the last module the category's status is decided.
LintCommunicated(c, found, rc) ==
    /\ runner = "lint"
    /\ lint[c].pc = "communicate"
    /\ LET issues == lint[c].issues \/ found
       IN IF lint[c].module < go_modules
          THEN /\ lint' = [lint EXCEPT ![c].issues = issues, ![c].returncode = rc,
                                       ![c].module = @ + 1, ![c].pc = "spawn"]
               /\ UNCHANGED semaphore
          ELSE /\ lint' = [lint EXCEPT ![c].issues = issues, ![c].returncode = rc,
                                       ![c].status = LintStatusOf(issues), ![c].pc = "done"]
               /\ semaphore' = SlotsAfterRelease
    /\ UNCHANGED <<phase, exit_code, registry, testVars, go_modules, accVars>>

\* wait_for(process.communicate(), timeout) raises asyncio.TimeoutError.
LintTimesOut(c) ==
    /\ runner = "lint"
    /\ lint[c].pc = "communicate"
    /\ lint' = [lint EXCEPT ![c].status = Failed, ![c].error = TimeoutMessage(DefaultTimeout),
                            ![c].pc = "done"]
    /\ semaphore' = SlotsAfterRelease
    /\ UNCHANGED <<phase, exit_code, registry, testVars, go_modules, accVars>>

\* run(): `return len(failed_categories) == 0`; main: `0 if success else 1`.
LintExit == IF \E c \in LintCategories : lint[c].status = Failed THEN 1 ELSE 0

LintRunReturns ==
    /\ runner = "lint"
    /\ phase = "running"
    /\ \A c \in LintCategories : lint[c].pc = "done"
    /\ phase' = "exited"
    /\ exit_code' = LintExit
    /\ UNCHANGED <<registry, testVars, semaphore, lintVars, accVars>>

LintNext ==
    \/ LintMain
    \/ LintRunReturns
    \/ \E c \in Categories :
        \/ LintStart(c)
        \/ LintSlotGranted(c)
        \/ LintSpawned(c)
        \/ LintSpawnFails(c)
        \/ LintTimesOut(c)
        \/ \E found \in BOOLEAN, rc \in {0, 1} : LintCommunicated(c, found, rc)

\* =========================================== parallel_acceptance_test.py
\* TestStatus of the acceptance runner
PASS == "pass"
FAIL == "fail"
SKIP == "skip"
ERROR == "error"
NOT_SUPPORTED == "not_supported"

AllBackends == "All"
Backends == {"MemStore", "Redis"}

\* A line of `go test -v` output: what it announces, the test name split at
\* "/", and the seconds in its "(0.15s)" suffix, in hundredths.
LineKinds == {"RUN", "PASS", "FAIL", "SKIP", "TEXT"}
TestPaths == {<<"Test">>, <<"Test", "MemStore">>, <<"Test", "Redis">>,
              <<"Test", "MemStore", "SetAndGet">>, <<"TestScan", "MemStore">>}
GoLines ==
    {[kind |-> "TEXT", parts |-> <<"ok">>, seconds |-> 0]}
    \cup {[kind |-> "RUN", parts |-> ps, seconds |-> 0] : ps \in TestPaths}
    \cup {[kind |-> k, parts |-> ps, seconds |-> 15] : k \in {"PASS", "FAIL", "SKIP"}, ps \in TestPaths}

RECURSIVE Outputs(_)
Outputs(n) ==
    IF n = 0 THEN {<<>>}
    ELSE LET shorter == Outputs(n - 1)
         IN shorter \cup {Append(o, l) : o \in {x \in shorter : Len(x) = n - 1}, l \in GoLines}

\* The seconds run_pattern_tests measured for pattern p.
TotalDuration(p) == 100 + p

\* backend_tests[backend] = {"status": st, "duration": d}: dict assignment, the
\* key keeping the place of its first insertion.
Assign(backend_tests, backend, st, d) ==
    IF \E i \in 1..Len(backend_tests) : backend_tests[i].backend = backend
    THEN [i \in 1..Len(backend_tests) |->
            IF backend_tests[i].backend = backend
            THEN [backend |-> backend, status |-> st, duration |-> d]
            ELSE backend_tests[i]]
    ELSE Append(backend_tests, [backend |-> backend, status |-> st, duration |-> d])

Has(backend_tests, backend) ==
    \E i \in 1..Len(backend_tests) : backend_tests[i].backend = backend

StatusOfLine(kind) ==
    CASE kind = "PASS" -> PASS
      [] kind = "FAIL" -> FAIL
      [] OTHER -> SKIP

\* ParseLine, were the RUN lines passed over.
ParseLine_RunIgnored(backend_tests, line) ==
    IF line.kind \in {"PASS", "FAIL", "SKIP"} /\ Len(line.parts) = 2
    THEN Assign(backend_tests, line.parts[2], StatusOfLine(line.kind), line.seconds)
    ELSE backend_tests

\* One iteration of the `for line in lines` loop of _parse_go_test_output.
ParseLine(backend_tests, line) ==
    IF line.kind = "RUN"
    THEN IF Len(line.parts) >= 2 /\ ~Has(backend_tests, line.parts[2])
         THEN Assign(backend_tests, line.parts[2], PASS, 0)
         ELSE backend_tests
    ELSE IF line.kind \in {"PASS", "FAIL", "SKIP"}
    THEN IF Len(line.parts) = 2
         THEN Assign(backend_tests, line.parts[2], StatusOfLine(line.kind), line.seconds)
         ELSE backend_tests
    ELSE backend_tests

RECURSIVE ParseLines(_, _, _)
ParseLines(backend_tests, output, i) ==
    IF i > Len(output) THEN backend_tests
    ELSE ParseLines(ParseLine(backend_tests, output[i]), output, i + 1)

\* _parse_go_test_output: one TestResult per entry of backend_tests.
ParseGoTestOutput(output, pattern) ==
    LET backend_tests == ParseLines(<<>>, output, 1)
    IN [i \in 1..Len(backend_tests) |->
          [backend |-> backend_tests[i].backend, pattern |-> pattern,
           status |-> backend_tests[i].status, duration |-> backend_tests[i].duration]]

\* `if not results`: one summary result for the whole run.
SummaryResult(p, rc) ==
    [backend |-> AllBackends, pattern |-> p,
     status |-> IF rc = 0 THEN PASS ELSE FAIL, duration |-> TotalDuration(p)]

\* `except Exception as e`: one ERROR result.
ErrorResult(p) ==
    [backend |-> AllBackends, pattern |-> p, status |-> ERROR, duration |-> TotalDuration(p)]

\* PatternResults, were a non-zero return code to add a failed summary row.
PatternResults_CodeCounts(output, p, rc) ==
    LET parsed == ParseGoTestOutput(output, p)
    IN IF parsed = <<>> \/ rc # 0
       THEN parsed \o <<[backend |-> AllBackends, pattern |-> p,
                         status |-> IF rc = 0 THEN PASS ELSE FAIL,
                         duration |-> TotalDuration(p)]>>
       ELSE parsed

\* PatternResults, were the parser's result returned as it is.
PatternResults_NoFallback(output, p, rc) == ParseGoTestOutput(output, p)

\* The results of a pattern run whose process printed `output` and exited rc.
PatternResults(output, p, rc) ==
    LET parsed == ParseGoTestOutput(output, p)
    IN IF parsed = <<>> THEN <<SummaryResult(p, rc)>> ELSE parsed

\* `fail_fast and any(not r.passed for r in results)`
FailFastExit(rs) == fail_fast /\ \E i \in 1..Len(rs) : rs[i].status # PASS

\* AcceptanceReport(timestamp, duration, results), handed to main().
AcceptanceReport(rs) == [written |-> TRUE, results |-> rs]

CountOf(rs, st) == Cardinality({i \in 1..Len(rs) : rs[i].status = st})
total_tests(rs) == Cardinality({i \in 1..Len(rs) : rs[i].status # NOT_SUPPORTED})
passed_tests(rs) == CountOf(rs, PASS)
failed_tests(rs) == CountOf(rs, FAIL)
skipped_tests(rs) == CountOf(rs, SKIP)
\* errored_tests, were it to count the failures.
errored_tests_AsFailed(rs) == CountOf(rs, FAIL)
errored_tests(rs) == CountOf(rs, ERROR)

\* report.backends, report.patterns: the names that occur in the rows.
backends(rs) == {rs[i].backend : i \in 1..Len(rs)}
patterns(rs) == {rs[i].pattern : i \in 1..Len(rs)}

\* A score is the fraction a / b in lowest terms: the float the code computes
\* is the double nearest to it.
RECURSIVE GCD(_, _)
GCD(a, b) == IF b = 0 THEN a ELSE GCD(b, a % b)
Ratio(a, b) == LET g == GCD(a, b) IN [num |-> a \div g, den |-> b \div g]
Zero == Ratio(0, 1)

Applicable(r) == r.status # NOT_SUPPORTED
OfBackend(rs, backend) == SelectSeq(rs, LAMBDA r : r.backend = backend /\ Applicable(r))
OfPattern(rs, pattern) == SelectSeq(rs, LAMBDA r : r.pattern = pattern /\ Applicable(r))

\* (passed / len(rows)) * 100.0, or 0.0 for no rows
Score(rows) ==
    IF rows = <<>> THEN Zero ELSE Ratio(CountOf(rows, PASS) * 100, Len(rows))

backend_score(rs, backend) == Score(OfBackend(rs, backend))
pattern_score(rs, pattern) == Score(OfPattern(rs, pattern))

\* get_result: the first row of the backend and the pattern, as a list of
\* one row, or None as the empty list.
get_result(rs, backend, pattern) ==
    LET found == {i \in 1..Len(rs) : rs[i].backend = backend /\ rs[i].pattern = pattern}
    IN IF found = {} THEN <<>>
       ELSE <<rs[CHOOSE i \in found : \A j \in found : i <= j]>>

\* The cell a matrix shows for a result: the dashes for None or
\* NOT_SUPPORTED, else the mark of the status.
NoCell == "none"
Cell(result) ==
    IF result = <<>> \/ result[1].status = NOT_SUPPORTED THEN NoCell ELSE result[1].status

\* f"{x:.1f}" of the fraction a / b: the nearest number of tenths (the tie goes
\* to the even one), read back as a fraction.
OneDecimal(a, b) ==
    LET q == (10 * a) \div b
        r == (10 * a) % b
        tenths == IF 2 * r > b \/ (2 * r = b /\ q % 2 = 1) THEN q + 1 ELSE q
    IN Ratio(tenths, 10)

Max(a, b) == IF a >= b THEN a ELSE b

\* The summary lines of format_terminal and of format_markdown: the Errors
\* line is there only for a positive count.
SummaryLines(rs) ==
    [total |-> total_tests(rs),
     passed |-> passed_tests(rs),
     passed_percent |-> OneDecimal(passed_tests(rs) * 100, Max(total_tests(rs), 1)),
     failed |-> failed_tests(rs),
     skipped |-> skipped_tests(rs),
     errors |-> IF errored_tests(rs) > 0 THEN <<errored_tests(rs)>> ELSE <<>>]

\* The matrix of format_terminal and of format_markdown: a cell for every
\* pattern and backend, the score of every pattern and of every backend.
Matrix(rs) ==
    [cells |-> [q \in patterns(rs), b \in backends(rs) |-> Cell(get_result(rs, b, q))],
     pattern_scores |-> [q \in patterns(rs) |->
                           OneDecimal(pattern_score(rs, q).num, pattern_score(rs, q).den)],
     backend_scores |-> [b \in backends(rs) |->
                           OneDecimal(backend_score(rs, b).num, backend_score(rs, b).den)]]

NoMatrix == [cells |-> <<>>, pattern_scores |-> <<>>, backend_scores |-> <<>>]

\* What the three formats present of a report; layout, colours, legend and
\* the details of the failures are left out.
format_terminal(rs) ==
    [written |-> TRUE, format |-> "terminal", summary |-> SummaryLines(rs),
     matrix |-> IF backends(rs) = {} \/ patterns(rs) = {} THEN NoMatrix ELSE Matrix(rs)]

format_markdown(rs) ==
    [written |-> TRUE, format |-> "markdown", summary |-> SummaryLines(rs),
     matrix |-> IF backends(rs) = {} \/ patterns(rs) = {} THEN NoMatrix ELSE Matrix(rs)]

format_json(rs) ==
    [written |-> TRUE, format |-> "json",
     summary |-> [total |-> total_tests(rs), passed |-> passed_tests(rs),
                  failed |-> failed_tests(rs), skipped |-> skipped_tests(rs),
                  errored |-> errored_tests(rs)],
     backends |-> backends(rs),
     patterns |-> patterns(rs),
     results |-> rs,
     scores |-> [backends |-> [b \in backends(rs) |-> backend_score(rs, b)],
                 patterns |-> [q \in patterns(rs) |-> pattern_score(rs, q)]]]

\* main: args.format picks the formatter.
Formats == {"terminal", "markdown", "json"}
Render(fmt, rs) ==
    CASE fmt = "terminal" -> format_terminal(rs)
      [] fmt = "markdown" -> format_markdown(rs)
      [] fmt = "json" -> format_json(rs)

\* pattern_dirs once run_all_tests has discovered and filtered them
pattern_dirs == selected
max_concurrency == max_parallel

\* run_all_tests with no pattern directory left returns an empty report, and
\* main exits on it; otherwise the coroutines are created.
AccMain ==
    /\ runner = "acceptance"
    /\ phase = "main"
    /\ IF pattern_dirs = {}
       THEN /\ phase' = "exited"
            /\ exit_code' = 0
            /\ report' = AcceptanceReport(<<>>)
            /\ \E fmt \in Formats : formatted' = Render(fmt, <<>>)
            /\ UNCHANGED semaphore
       ELSE /\ phase' = "running"
            /\ exit_code' = exit_code
            /\ semaphore' = max_concurrency
            /\ UNCHANGED <<report, formatted>>
    /\ UNCHANGED <<registry, testVars, lintVars, sequential, parserVars, acc>>

\* With --sequential a pattern is started once the ones before it returned;
\* otherwise gather starts the coroutines in the order of pattern_dirs.
AccStarted(p) == acc[p].pc # "init"
AccMayStart(p) ==
    \A q \in pattern_dirs : q < p => IF sequential THEN acc[q].pc = "done" ELSE AccStarted(q)

\* A started coroutine is resumed once the first steps have all been run.
AccMayResume == sequential \/ \A q \in pattern_dirs : AccStarted(q)

AccStart(p) ==
    /\ runner = "acceptance"
    /\ phase = "running"
    /\ p \in pattern_dirs
    /\ acc[p].pc = "init"
    /\ AccMayStart(p)
    /\ IF SlotFree
       THEN /\ acc' = [acc EXCEPT ![p].pc = "spawn"]
            /\ semaphore' = SlotsAfterAcquire
       ELSE /\ acc' = [acc EXCEPT ![p].pc = "wait_sem"]
            /\ UNCHANGED semaphore
    /\ UNCHANGED <<phase, exit_code, registry, testVars, lintVars, sequential, parserVars, report, formatted>>

AccSlotGranted(p) ==
    /\ runner = "acceptance"
    /\ phase = "running"
    /\ AccMayResume
    /\ acc[p].pc = "wait_sem"
    /\ SlotFree
    /\ acc' = [acc EXCEPT ![p].pc = "spawn"]
    /\ semaphore' = SlotsAfterAcquire
    /\ UNCHANGED <<phase, exit_code, registry, testVars, lintVars, sequential, parserVars, report, formatted>>

AccSpawned(p) ==
    /\ runner = "acceptance"
    /\ phase = "running"
    /\ AccMayResume
    /\ acc[p].pc = "spawn"
    /\ acc' = [acc EXCEPT ![p].pc = "communicate"]
    /\ UNCHANGED <<phase, exit_code, registry, testVars, semaphore, lintVars, sequential, parserVars, report, formatted>>

AccSpawnFails(p) ==
    /\ runner = "acceptance"
    /\ phase = "running"
    /\ AccMayResume
    /\ acc[p].pc = "spawn"
    /\ acc' = [acc EXCEPT ![p].pc = "done", ![p].results = <<ErrorResult(p)>>]
    /\ semaphore' = SlotsAfterRelease
    /\ UNCHANGED <<phase, exit_code, registry, testVars, lintVars, sequential, parserVars, report, formatted>>

\* communicate() returns: parse, fall back, then either sys.exit(1) by
\* fail-fast or return the results.
AccCommunicated(p, output, rc) ==
    /\ runner = "acceptance"
    /\ phase = "running"
    /\ acc[p].pc = "communicate"
    /\ LET rs == PatternResults(output, p, rc)
       IN IF FailFastExit(rs)
          THEN /\ phase' = "exited"
               /\ exit_code' = 1
               /\ acc' = [acc EXCEPT ![p].pc = "exit", ![p].results = rs,
                                     ![p].returncode = rc]
               /\ UNCHANGED semaphore
          ELSE /\ acc' = [acc EXCEPT ![p].pc = "done", ![p].results = rs,
                                     ![p].returncode = rc]
               /\ semaphore' = SlotsAfterRelease
               /\ UNCHANGED <<phase, exit_code>>
    /\ UNCHANGED <<registry, testVars, lintVars, sequential, parserVars, report, formatted>>

\* all_results: the coroutines' results, in the order of pattern_dirs.
RECURSIVE AllResults(_)
AllResults(p) ==
    IF p > NumPatterns THEN <<>>
    ELSE (IF p \in pattern_dirs THEN acc[p].results ELSE <<>>) \o AllResults(p + 1)

\* main: sys.exit(0 if report.failed_tests == 0 and report.errored_tests == 0 else 1)
AccExit(rs) == IF failed_tests(rs) = 0 /\ errored_tests(rs) = 0 THEN 0 ELSE 1

AccRunReturns ==
    /\ runner = "acceptance"
    /\ phase = "running"
    /\ \A p \in pattern_dirs : acc[p].pc = "done"
    /\ report' = AcceptanceReport(AllResults(1))
    /\ \E fmt \in Formats : formatted' = Render(fmt, AllResults(1))
    /\ phase' = "exited"
    /\ exit_code' = AccExit(AllResults(1))
    /\ UNCHANGED <<registry, testVars, semaphore, lintVars, sequential, parserVars, acc>>

AccNext ==
    \/ AccMain
    \/ AccRunReturns
    \/ \E p \in Patterns :
        \/ AccStart(p)
        \/ AccSlotGranted(p)
        \/ AccSpawned(p)
        \/ AccSpawnFails(p)
        \/ \E output \in Outputs(MaxLines), rc \in {0, 1} : AccCommunicated(p, output, rc)

\* ================================================================== Spec
\* parallel_lint.py main(): any --categories filter, any number of Go modules.
InitLint ==
    /\ InitIdle /\ report = NoReport /\ NoTestInput /\ NoAccInput /\ NoParserInput
    /\ runner = "lint"
    /\ selected \in SUBSET Categories
    /\ go_modules \in 0..MaxModules
    /\ fail_fast \in BOOLEAN
    /\ max_parallel \in 1..MaxParallel

\* parallel_acceptance_test.py main(): the pattern directories found and
\* left by --patterns, with or without --sequential.
InitAcc ==
    /\ InitIdle /\ report = NoReport /\ NoTestInput /\ NoLintInput /\ NoParserInput
    /\ runner = "acceptance"
    /\ selected \in SUBSET Patterns
    /\ sequential \in BOOLEAN
    /\ fail_fast \in BOOLEAN
    /\ max_parallel \in 1..MaxParallel

Init == InitTest \/ InitLint \/ InitAcc

Next == TestNext \/ LintNext \/ AccNext

Spec == Init /\ [][Next]_vars
SpecAny == InitAny /\ [][TestNext]_vars

\* _parse_go_test_output on its own: any text of MaxParseLines lines, any pattern.
InitParser ==
    /\ InitIdle /\ report = NoReport /\ NoTestInput /\ NoLintInput /\ NoAccInput
    /\ runner = "parser"
    /\ selected \in {{p} : p \in Patterns}
    /\ fail_fast = FALSE
    /\ max_parallel = 1
    /\ go_output \in Outputs(MaxParseLines)
    /\ go_results = NoParse

Parse(p) ==
    /\ runner = "parser"
    /\ selected = {p}
    /\ ~go_results.returned
    /\ go_results' = [returned |-> TRUE, results |-> ParseGoTestOutput(go_output, p)]
    /\ UNCHANGED <<phase, exit_code, registry, testVars, semaphore, lintVars, sequential, acc,
                   report, formatted, go_output>>

ParserNext == \E p \in Patterns : Parse(p)

ParserSpec == InitParser /\ [][ParserNext]_vars

\* The ReportFormatter on its own: any report that runs of up to
\* MaxReportPatterns patterns can return, in any format.
ReportPatterns == 1..MaxReportPatterns
RunResults(p) ==
    {<<>>, <<ErrorResult(p)>>}
    \cup {PatternResults(text, p, rc) : text \in Outputs(MaxLines), rc \in {0, 1}}

RECURSIVE Reports(_)
Reports(p) ==
    IF p > MaxReportPatterns THEN {<<>>}
    ELSE {rs \o rest : rs \in RunResults(p), rest \in Reports(p + 1)}

InitReport ==
    /\ InitIdle /\ NoTestInput /\ NoLintInput /\ NoAccInput /\ NoParserInput
    /\ runner = "formatter"
    /\ selected = {}
    /\ fail_fast = FALSE
    /\ max_parallel = 1
    /\ report \in {AcceptanceReport(rs) : rs \in Reports(1)}

Format(fmt) ==
    /\ runner = "formatter"
    /\ ~formatted.written
    /\ formatted' = Render(fmt, report.results)
    /\ UNCHANGED <<phase, exit_code, registry, testVars, semaphore, lintVars, sequential, acc,
                   report, parserVars>>

FormatNext == \E fmt \in Formats : Format(fmt)

ReportSpec == InitReport /\ [][FormatNext]_vars

\* The event loop resumes every coroutine that can go on, and every spawned
\* process exits in the end.
Fairness ==
    /\ WF_vars(Main)
    /\ WF_vars(RunAllReturns)
    /\ \A t \in Suites : WF_vars(Step(t))
    /\ \A t \in Suites : WF_vars(\E rc \in {0, 1} : ProcExits(t, rc))

\* overran is only written, never read, by the runner: the runs of FairSpec are
\* those of the test runner with the clock left unobserved.
FairSpec == InitTest /\ [][SchedulerNext]_vars /\ Fairness

\* ================================================================ claims
Executing(t) == pc[t] \in {"spawn", "read", "wait"}
Done(t) == pc[t] = "done"
RunningCount == Cardinality({t \in suites : status[t] = Running})

\* C1: a suite's status becomes running only in a step taken from a state in
\* which every suite it depends on already has a terminal status (passed,
\* failed or skipped): its start comes strictly after each dependency's end.
C1_StartsAfterDependencies ==
    [][\A t \in Suites :
         (status[t] # Running /\ status'[t] = Running)
         => \A d \in Range(depends_on[t]) :
               HasSuite(d) /\ status[DepSuite(d)] \in Terminal /\ Done(DepSuite(d))]_vars

C1_Witness ==
    \E t \in suites : Len(depends_on[t]) = 2 /\ status[t] = Running

\* C2: at most one suite of a parallel_group is inside _execute_suite, whatever
\* max_parallel is, and a suite without a group never waits for a lock.
C2_GroupExclusion ==
    /\ \A t, u \in suites :
         (t # u /\ Executing(t) /\ Executing(u) /\ parallel_group[t] # NoGroup)
         => parallel_group[t] # parallel_group[u]
    /\ \A t \in suites : pc[t] = "wait_lock" => parallel_group[t] # NoGroup
    /\ \A t \in suites :
         (Executing(t) /\ parallel_group[t] # NoGroup) => parallel_groups[parallel_group[t]] = t

C2_Witness ==
    \E t, u, v \in suites :
        /\ parallel_group[t] # NoGroup /\ parallel_group[t] = parallel_group[u]
        /\ Executing(t) /\ pc[u] = "wait_lock"
        /\ parallel_group[v] = NoGroup /\ Done(v) /\ status[v] = Passed

\* C3: in each runner the number of running tasks (admitted, not yet terminal)
\* is at most the configured maximum parallelism.
LintRunningCount == Cardinality({c \in LintCategories : lint[c].status = Running})
AccRunningCount == Cardinality({p \in pattern_dirs : acc[p].pc \in {"spawn", "communicate"}})

C3_RunningWithinMaximum ==
    /\ runner = "test" => RunningCount <= max_parallel
    /\ runner = "lint" => LintRunningCount <= max_parallel
    /\ runner = "acceptance" => AccRunningCount <= max_concurrency

\* Three suites without dependencies, a maximum of 2, two of them running and
\* the third waiting for a slot.
C3_Witness ==
    /\ runner = "test"
    /\ suites = Suites /\ Cardinality(Suites) >= 3
    /\ \A t \in suites : depends_on[t] = <<>>
    /\ max_parallel = 2
    /\ RunningCount = 2
    /\ \E t \in suites : pc[t] = "wait_sem"

\* C4: with fail_fast, once a suite has failed, a suite that has not yet taken
\* its admission slot (it has not begun, or waits for a dependency or for a
\* free slot) never takes one: its next step leaves it unadmitted or skipped.
NotAdmitted(t) == pc[t] \in {"init", "wait_dep", "wait_sem"}

C4_FailFastStopsAdmission ==
    [][\A b \in suites :
         (fail_fast /\ failed /\ NotAdmitted(b))
         => (NotAdmitted(b)' \/ (Done(b)' /\ status'[b] = Skipped))]_vars

\* C5: a suite whose process was still alive when its timeout had elapsed
\* since its start does not end in any other way than killed: once it has
\* finished it is failed with the timeout message and return code -1, and
\* its process is dead.
C5_TimeoutEnforced ==
    \A t \in suites :
        (overran[t] /\ Done(t))
        => /\ status[t] = Failed
           /\ error_message[t] = TimeoutMessage(timeout[t])
           /\ return_code[t] = -1
           /\ proc[t] = "killed"

\* C6 as stated: a finished suite X with a finished dependency Y that did not
\* pass is skipped with the message naming Y, never ran, and set its event.
NeverRan(t) ==
    return_code[t] = NoCode /\ ~log_file[t] /\ t \notin logs /\ proc[t] = "none"

FinishedNotPassed(d) ==
    HasSuite(d) /\ Done(DepSuite(d)) /\ status[DepSuite(d)] # Passed

C6_SkippedNamingAnyFailedDependency ==
    \A x \in suites : \A i \in 1..Len(depends_on[x]) :
        (Done(x) /\ FinishedNotPassed(depends_on[x][i]))
        => /\ status[x] = Skipped
           /\ error_message[x] = DependencyMessage(depends_on[x][i])
           /\ NeverRan(x)
           /\ completion_events[name[x]]

\* C6 as amended: the message names the first dependency, in the order of
\* depends_on, that did not pass.
FirstNotPassed(x) ==
    CHOOSE i \in 1..Len(depends_on[x]) :
        /\ FinishedNotPassed(depends_on[x][i])
        /\ \A k \in 1..(i - 1) : ~FinishedNotPassed(depends_on[x][k])

C6_SkippedNamingFirstFailedDependency ==
    \A x \in suites :
        (Done(x) /\ \E i \in 1..Len(depends_on[x]) : FinishedNotPassed(depends_on[x][i]))
        => /\ status[x] = Skipped
           /\ error_message[x] = DependencyMessage(depends_on[x][FirstNotPassed(x)])
           /\ \A k \in 1..(FirstNotPassed(x) - 1) :
                 Done(DepSuite(depends_on[x][k])) /\ status[DepSuite(depends_on[x][k])] = Passed
           /\ NeverRan(x)
           /\ completion_events[name[x]]

\* A suite skipped for its first dependency, which was itself skipped, while
\* its second dependency failed too.
C6_Witness ==
    \E x \in suites :
        /\ Len(depends_on[x]) = 2
        /\ Done(x) /\ status[x] = Skipped
        /\ FinishedNotPassed(depends_on[x][1]) /\ FinishedNotPassed(depends_on[x][2])
        /\ status[DepSuite(depends_on[x][1])] = Skipped
        /\ error_message[x] = DependencyMessage(depends_on[x][1])

\* C7: with an acyclic registry whose dependencies are all present, every run
\* of the test runner comes to its end: every suite has a terminal status, every
\* completion event is set, no coroutine is left waiting for a dependency, a
\* slot or a lock, and run_all has returned.
AllFinished ==
    /\ phase = "exited"
    /\ \A t \in suites :
         /\ status[t] \in Terminal
         /\ Done(t)
         /\ completion_events[name[t]]

C7_EveryRunTerminates == <>AllFinished

\* A finished run of three suites under one slot, with a shared group, in which
\* one suite passed, one failed and one was skipped.
C7_Witness ==
    /\ AllFinished
    /\ suites = Suites
    /\ max_parallel = 1
    /\ \E t, u \in suites : t # u /\ parallel_group[t] # NoGroup
                              /\ parallel_group[t] = parallel_group[u]
    /\ \E t \in suites : depends_on[t] # <<>>
    /\ \E t, u, v \in suites :
         status[t] = Passed /\ status[u] = Failed /\ status[v] = Skipped

\* C8: a registry with a dependency cycle is rejected when it is loaded: the
\* run ends at once with exit code 1, no run_suite coroutine takes a step, and
\* so no suite ever waits for a suite that waits for it.
Rejected ==
    /\ phase # "main" => (phase = "exited" /\ exit_code = 1)
    /\ \A t \in Suites : pc[t] = "init" /\ status[t] = Pending
    /\ results = {}

C8_CyclicRegistryRejected == Cyclic(selected) => Rejected

\* C9: a registry in which a suite names a dependency that was not handed to
\* the runner, or in which two suites share a name, is rejected before any
\* suite runs, with exit code 1 and no result.
C9_BrokenRegistryRejected ==
    (Unresolved(selected) \/ DuplicateNames(selected)) => Rejected

\* C10: whenever a runner that was given something to run has exited, its exit
\* code is non-zero exactly if some result it gathered is failed or errored.
Failures ==
    CASE runner = "test" -> Count(Failed)
      [] runner = "lint" -> Cardinality({c \in LintCategories : lint[c].status = Failed})
      [] OTHER -> failed_tests(AllResults(1)) + errored_tests(AllResults(1))

C10_ExitCodeReflectsFailures ==
    (phase = "exited" /\ selected # {}) => (exit_code # 0 <=> Failures > 0)

\* C11: a report that has been produced counts every task once: the test
\* runner's summary has passed + failed + skipped (it has no errored count)
\* equal to total, total is the number of suites and no entry is pending or
\* running; the acceptance report has passed + failed + skipped + errored
\* equal to total_tests, total_tests is the number of rows and every row has
\* one of these four statuses.
C11_CountsSumToTotal ==
    /\ json_report.written =>
          /\ json_report.summary.passed + json_report.summary.failed
                + json_report.summary.skipped = json_report.summary.total
          /\ json_report.summary.total = Cardinality(suites)
          /\ DOMAIN json_report.suites = suites
          /\ \A s \in suites : json_report.suites[s].status \in Terminal
    /\ report.written =>
          /\ passed_tests(report.results) + failed_tests(report.results)
                + skipped_tests(report.results) + errored_tests(report.results)
                = total_tests(report.results)
          /\ total_tests(report.results) = Len(report.results)
          /\ \A i \in 1..Len(report.results) :
                report.results[i].status \in {PASS, FAIL, SKIP, ERROR}

\* A written test report of three suites: one passed, one failed, one skipped.
C11_Witness ==
    /\ json_report.written
    /\ json_report.summary.total = 3
    /\ json_report.summary.passed = 1
    /\ json_report.summary.failed = 1
    /\ json_report.summary.skipped = 1

\* C12: a step in which launching or supervising the command raises leaves the
\* task with the status errored, which is not failed, and with the raised
\* condition as its message: a suite of the test runner, and the single row
\* of a pattern of the acceptance runner.
ERRORED == "errored"

C12_SpawnFailureIsErrored ==
    [][ /\ \A t \in Suites :
             SpawnFails(t) => /\ status'[t] = ERRORED
                              /\ status'[t] # Failed
                              /\ error_message'[t] = ExceptionMessage
        /\ \A p \in Patterns :
             AccSpawnFails(p) => /\ Len(acc'[p].results) = 1
                                 /\ acc'[p].results[1].status = ERROR]_vars

\* C13: a run that was given tasks ends only when every task has come to its
\* own outcome, and with its report produced: a failure under fail-fast
\* interrupts no task that was running and does not take the report away.
C13_RunEndsWithEveryOutcomeReported ==
    /\ (runner = "test" /\ phase = "exited" /\ selected # {})
         => /\ \A t \in suites : Done(t) /\ status[t] \in Terminal
            /\ json_report.written
    /\ (runner = "acceptance" /\ phase = "exited")
         => /\ \A p \in pattern_dirs : acc[p].pc = "done"
            /\ report.written
            /\ report.results = AllResults(1)

\* C14: once the test runner has written its report, every suite of the run
\* has its log file on disk and a log_file that is not null in the report,
\* whatever its status.
C14_OneLogPerSuite ==
    json_report.written =>
        \A s \in suites : s \in logs /\ json_report.suites[s].log_file

\* C15: a skipped task has a recorded reason, which is that one of its
\* dependencies did not pass or that fail-fast had tripped, and some task of
\* the run has failed: for the suites of the test runner and for the
\* categories of the lint runner.
C15_SkipImpliesUpstreamFailure ==
    /\ \A t \in suites :
         status[t] = Skipped
         => /\ error_message[t] # NoMessage
            /\ \/ error_message[t] = FailFastMessage /\ FailFastTripped
               \/ \E d \in Range(depends_on[t]) :
                     error_message[t] = DependencyMessage(d) /\ DidNotPass(d)
            /\ Count(Failed) > 0
    /\ runner = "lint"
         => \A c \in LintCategories :
              lint[c].status = Skipped
              => /\ lint[c].error # NoMessage
                 /\ \E b \in LintCategories : lint[b].status = Failed

\* C16: what _parse_go_test_output returns is decided by the lines whose test
\* name has exactly one "/" alone: the text with every other line taken out
\* (deeper nesting, RUN lines or outcome lines alike) gives the same result.
TopLevel(line) == Len(line.parts) = 2

C16_OnlyTopLevelLinesCount ==
    go_results.returned =>
        \A p \in selected :
            go_results.results = ParseGoTestOutput(SelectSeq(go_output, TopLevel), p)

\* C17: for a text made of top-level outcome lines ("--- PASS/FAIL/SKIP:
\* Test/Backend") the parser returns one sub-result per line, in order, each
\* with the backend and the status of its own line.
TopLevelOutcome(line) == line.kind \in {"PASS", "FAIL", "SKIP"} /\ TopLevel(line)

C17_OneSubResultPerOutcomeLine ==
    (go_results.returned /\ \A i \in 1..Len(go_output) : TopLevelOutcome(go_output[i]))
    => /\ Len(go_results.results) = Len(go_output)
       /\ \A i \in 1..Len(go_output) :
            /\ go_results.results[i].backend = go_output[i].parts[2]
            /\ go_results.results[i].status = StatusOfLine(go_output[i].kind)

\* C18: a pattern run that returns leaves at least one row; if nothing was
\* parsed from its output the row is the single one of backend "All" with
\* the pattern, the measured duration and pass for return code 0, fail
\* otherwise; if running it raised, the single "All" row with status error.
\* A report, once produced, has a row of every pattern that was run.
WildcardRow(p, st) ==
    [backend |-> AllBackends, pattern |-> p, status |-> st, duration |-> TotalDuration(p)]

C18_FallbackRow ==
    [][ /\ \A p \in Patterns :
             /\ \A text \in Outputs(MaxLines), rc \in {0, 1} :
                   AccCommunicated(p, text, rc)
                   => /\ Len(acc'[p].results) >= 1
                      /\ ParseGoTestOutput(text, p) = <<>>
                           => acc'[p].results
                                = <<WildcardRow(p, IF rc = 0 THEN PASS ELSE FAIL)>>
             /\ AccSpawnFails(p) => acc'[p].results = <<WildcardRow(p, ERROR)>>
        /\ (runner = "acceptance" /\ report'.written)
             => \A q \in pattern_dirs :
                  \E i \in 1..Len(report'.results) : report'.results[i].pattern = q]_vars

\* A report of two patterns: one with the wildcard row of a failed run, one
\* with a parsed backend row.
C18_Witness ==
    /\ report.written
    /\ \E i, j \in 1..Len(report.results) :
          /\ report.results[i].backend = AllBackends
          /\ report.results[i].status = FAIL
          /\ report.results[j].backend \in Backends
          /\ report.results[j].pattern # report.results[i].pattern

\* C19: in a report every backend score and every pattern score is
\* 100 * passed / (passed + failed + errored) over the rows of that backend
\* or pattern that are not not_supported, skip rows counting on neither
\* side, and 0 when passed + failed + errored is 0.
ScoreWithoutSkips(rows) ==
    LET decided == CountOf(rows, PASS) + CountOf(rows, FAIL) + CountOf(rows, ERROR)
    IN IF decided = 0 THEN Zero ELSE Ratio(CountOf(rows, PASS) * 100, decided)

C19_ScoresExcludeSkips ==
    report.written =>
        /\ \A b \in backends(report.results) :
              backend_score(report.results, b) = ScoreWithoutSkips(OfBackend(report.results, b))
        /\ \A q \in patterns(report.results) :
              pattern_score(report.results, q) = ScoreWithoutSkips(OfPattern(report.results, q))

\* C20: once a report has been formatted, its terminal, Markdown and JSON
\* renderings show the same total, passed, failed and skipped counts, the
\* same errored count wherever they show one, the same score for every
\* backend and every pattern, and the same status in every cell.
JsonStatuses(j, b, q) ==
    {j.results[i].status : i \in {k \in 1..Len(j.results) :
                                   j.results[k].backend = b /\ j.results[k].pattern = q}}

SameCounts(t, j) ==
    /\ t.summary.total = j.summary.total
    /\ t.summary.passed = j.summary.passed
    /\ t.summary.failed = j.summary.failed
    /\ t.summary.skipped = j.summary.skipped
    /\ t.summary.errors # <<>> => t.summary.errors[1] = j.summary.errored

SameScores(t, j) ==
    /\ \A b \in j.backends : t.matrix.backend_scores[b] = j.scores.backends[b]
    /\ \A q \in j.patterns : t.matrix.pattern_scores[q] = j.scores.patterns[q]

SameCells(t, j) ==
    \A b \in j.backends, q \in j.patterns :
        JsonStatuses(j, b, q) = IF t.matrix.cells[q, b] = NoCell THEN {}
                                ELSE {t.matrix.cells[q, b]}

C20_RenderingsAgree ==
    formatted.written =>
        LET t == format_terminal(report.results)
            m == format_markdown(report.results)
            j == format_json(report.results)
        IN /\ t.summary = m.summary /\ t.matrix = m.matrix
           /\ SameCounts(t, j)
           /\ SameCells(t, j)
           /\ SameScores(t, j)

\* C21: in the JSON report of the test runner and in the JSON rendering of
\* the acceptance report, every count of the summary is the one a reader
\* gets by tallying the status of the entries of the same document.
TallySuites(doc, st) == Cardinality({s \in DOMAIN doc.suites : doc.suites[s].status = st})
TallyResults(doc, st) ==
    Cardinality({i \in 1..Len(doc.results) : doc.results[i].status = st})

C21_SummaryRecomputable ==
    /\ json_report.written =>
          /\ json_report.summary.total = Cardinality(DOMAIN json_report.suites)
          /\ json_report.summary.passed = TallySuites(json_report, Passed)
          /\ json_report.summary.failed = TallySuites(json_report, Failed)
          /\ json_report.summary.skipped = TallySuites(json_report, Skipped)
    /\ (formatted.written /\ formatted.format = "json") =>
          /\ formatted.summary.total = Len(formatted.results)
          /\ formatted.summary.passed = TallyResults(formatted, PASS)
          /\ formatted.summary.failed = TallyResults(formatted, FAIL)
          /\ formatted.summary.skipped = TallyResults(formatted, SKIP)
          /\ formatted.summary.errored = TallyResults(formatted, ERROR)

\* A JSON rendering of two rows, one passed and one errored.
C21_Witness ==
    /\ formatted.written
    /\ formatted.format = "json"
    /\ formatted.summary.total = 2
    /\ formatted.summary.passed = 1
    /\ formatted.summary.errored = 1

\* C22: a task whose process exits on its own ends passed for return code 0
\* and failed for any other: a suite of the test runner, a category of the
\* lint runner after its last golangci-lint invocation, and the rows of a
\* pattern of the acceptance runner.
C22_ReturnCodeDecidesStatus ==
    [][ /\ \A t \in Suites :
             WaitReturns(t)
             => status'[t] = (IF return_code'[t] = 0 THEN Passed ELSE Failed)
        /\ \A c \in Categories, found \in BOOLEAN, rc \in {0, 1} :
             (LintCommunicated(c, found, rc) /\ lint'[c].pc = "done")
             => /\ rc # 0 => lint'[c].status = Failed
                /\ lint'[c].status \in {Passed, Failed}
        /\ \A p \in Patterns, text \in Outputs(MaxLines), code \in {0, 1} :
             AccCommunicated(p, text, code)
             => \A i \in 1..Len(acc'[p].results) :
                  acc'[p].results[i].status = (IF code = 0 THEN PASS ELSE FAIL)]_vars

\* C23: a suite is marked skipped, and sets its own completion event, only
\* when every dependency it lists that takes part in the run has reached a
\* terminal status.
C23_VerdictAfterAllDependencies ==
    [][\A t \in suites :
         \/ status[t] # Skipped /\ status'[t] = Skipped
         \/ ~completion_events[name[t]] /\ completion_events'[name[t]]
         => \A d \in Range(depends_on[t]) :
               Known(d) => status[DepSuite(d)] \in Terminal]_vars

\* C24: the status of a suite and of a lint category changes only from
\* pending to running or to a terminal status, and from running to a
\* terminal status: running is entered at most once, a terminal status is
\* never left, and nothing comes back to pending.
Lifecycle(before, after) ==
    \/ after = before
    \/ before = Pending /\ after \in {Running} \cup Terminal
    \/ before = Running /\ after \in Terminal

C24_StatusLifecycle ==
    [][ /\ \A t \in Suites : Lifecycle(status[t], status'[t])
        /\ \A c \in Categories : Lifecycle(lint[c].status, lint'[c].status)]_vars

\* A finished run of the test runner with a suite that ran and passed, one
\* that ran and failed, and one that was skipped.
C24_Witness ==
    /\ runner = "test"
    /\ phase = "exited"
    /\ \E t, u, w \in suites :
          /\ status[t] = Passed /\ return_code[t] = 0
          /\ status[u] = Failed
          /\ status[w] = Skipped

\* C25: while the test runner or the lint runner runs, the free slots and
\* the tasks between taking a slot and leaving the admitted section add up
\* to the configured maximum, and once the run has returned every slot is
\* free: the slot is given back on normal completion, timeout, early
\* return and exception alike.
Holding(t) == pc[t] \in {"wait_lock", "spawn", "read", "wait"}
LintHolding(c) == lint[c].pc \in {"spawn", "communicate"}

C25_SlotsConserved ==
    /\ (runner = "test" /\ phase # "main" /\ suites # {})
         => /\ semaphore + Cardinality({t \in suites : Holding(t)}) = max_parallel
            /\ semaphore >= 0
            /\ phase = "exited" => semaphore = max_parallel
    /\ (runner = "lint" /\ phase # "main" /\ LintCategories # {})
         => /\ semaphore + Cardinality({c \in LintCategories : LintHolding(c)}) = max_parallel
            /\ semaphore >= 0
            /\ phase = "exited" => semaphore = max_parallel

\* A finished run of the test runner in which one suite passed, one was
\* killed at its timeout and one failed to spawn, with every slot free.
C25_Witness ==
    /\ runner = "test"
    /\ phase = "exited"
    /\ semaphore = max_parallel
    /\ \E t, u, w \in suites :
          /\ status[t] = Passed
          /\ error_message[u] = TimeoutMessage(timeout[u])
          /\ error_message[w] = ExceptionMessage

\* C26: the step of the test runner that marks a suite skipped, for a
\* dependency that did not pass or for fail-fast, takes the suite from
\* pending, touches no slot, no group lock and not the fail-fast flag,
\* leaves return_code and log_file unset, no log and no process behind, and
\* changes nothing of any other suite.
BecomesSkipped(t) == status[t] # Skipped /\ status'[t] = Skipped

C26_SkipTouchesNothing ==
    [][\A t \in suites :
         BecomesSkipped(t)
         => /\ status[t] = Pending
            /\ error_message'[t] \in {FailFastMessage}
                    \cup {DependencyMessage(d) : d \in Range(depends_on[t])}
            /\ semaphore' = semaphore
            /\ parallel_groups' = parallel_groups
            /\ failed' = failed
            /\ results' = results
            /\ NeverRan(t)'
            /\ \A u \in suites \ {t} :
                  /\ status'[u] = status[u]
                  /\ error_message'[u] = error_message[u]
                  /\ return_code'[u] = return_code[u]
                  /\ log_file'[u] = log_file[u]
                  /\ pc'[u] = pc[u]
                  /\ proc'[u] = proc[u]
                  /\ completion_events'[name[u]] = completion_events[name[u]]]_vars

\* A suite skipped by fail-fast that never ran, next to a failed suite.
C26_Witness ==
    \E t, u \in suites :
        /\ status[t] = Skipped
        /\ error_message[t] = FailFastMessage
        /\ NeverRan(t)
        /\ status[u] = Failed

\* C27: in the test runner a suite waiting for its group's lock already
\* holds a slot: the running suites and the suites blocked on a group lock
\* together are the slots in use, at most max_parallel.
LockWaiters == {t \in suites : pc[t] = "wait_lock"}

C27_LockWaitersHoldSlots ==
    (runner = "test" /\ phase = "running")
    => /\ RunningCount + Cardinality(LockWaiters) <= max_parallel
       /\ RunningCount + Cardinality(LockWaiters) = max_parallel - semaphore

\* Two slots: one suite of a group running, a second suite of the group
\* blocked on the lock, and a suite without a group, its dependencies done,
\* waiting for a slot while only one suite runs.
C27_Witness ==
    /\ runner = "test"
    /\ max_parallel = 2
    /\ RunningCount = 1
    /\ \E t, u, w \in suites :
          /\ status[t] = Running /\ parallel_group[t] # NoGroup
          /\ pc[u] = "wait_lock" /\ parallel_group[u] = parallel_group[t]
          /\ pc[w] = "wait_sem" /\ parallel_group[w] = NoGroup

\* C28: in the acceptance runner the return code of a pattern's process
\* counts only when nothing was parsed.  A pattern that exited non-zero and
\* whose parsed sub-results all passed has no failed and no errored row,
\* and a finished run whose patterns are all of that kind exits 0.
ParsedRows(p) == \E i \in 1..Len(acc[p].results) : acc[p].results[i].backend # AllBackends
NonZeroParsed(p) ==
    acc[p].pc = "done" /\ acc[p].returncode \notin {0, NoCode} /\ ParsedRows(p)

C28_ReturnCodeIgnoredWhenParsed ==
    /\ \A p \in pattern_dirs :
          (runner = "acceptance" /\ NonZeroParsed(p))
          => \A i \in 1..Len(acc[p].results) :
                /\ acc[p].results[i].backend # AllBackends
                /\ acc[p].results[i].status \in {PASS, SKIP, FAIL}
    /\ (/\ runner = "acceptance" /\ phase = "exited" /\ pattern_dirs # {}
        /\ \A p \in pattern_dirs :
              /\ NonZeroParsed(p)
              /\ \A i \in 1..Len(acc[p].results) : acc[p].results[i].status = PASS)
       => /\ exit_code = 0
          /\ report.written
          /\ failed_tests(report.results) = 0
          /\ errored_tests(report.results) = 0

\* A finished run of two patterns, both exited with a non-zero return code
\* and both with one parsed sub-result that passed; the exit code is 0.
C28_Witness ==
    /\ runner = "acceptance"
    /\ phase = "exited"
    /\ exit_code = 0
    /\ Cardinality(pattern_dirs) = 2
    /\ \A p \in pattern_dirs :
          /\ NonZeroParsed(p)
          /\ \A i \in 1..Len(acc[p].results) : acc[p].results[i].status = PASS

\* C29: a backend named by a RUN line of the text, for which the text has no
\* top-level outcome line, is in the parser's result as a sub-result with
\* status pass and duration 0.
Announced(text) ==
    {text[i].parts[2] : i \in {k \in 1..Len(text) :
                                 text[k].kind = "RUN" /\ Len(text[k].parts) >= 2}}
WithOutcome(text) ==
    {text[i].parts[2] : i \in {k \in 1..Len(text) : TopLevelOutcome(text[k])}}

C29_AnnouncedOnlyIsPass ==
    go_results.returned =>
        \A b \in Announced(go_output) \ WithOutcome(go_output) :
            \E i \in 1..Len(go_results.results) :
                /\ go_results.results[i].backend = b
                /\ go_results.results[i].status = PASS
                /\ go_results.results[i].duration = 0

\* A text whose only trace of MemStore is a RUN line and the outcome of a
\* sub-test, next to nothing else: the parser returned the one row.
C29_Witness ==
    /\ go_results.returned
    /\ Len(go_output) = 2
    /\ go_output[1].kind = "RUN"
    /\ Len(go_output[1].parts) >= 2
    /\ go_output[2].kind = "FAIL"
    /\ Len(go_output[2].parts) = 3
    /\ Announced(go_output) \ WithOutcome(go_output) # {}
    /\ Len(go_results.results) = 1
    /\ go_results.results[1].status = PASS

\* C30: in the lint runner fail_fast changes nothing.  With it or without
\* it a category is skipped only when there is no Go module, never because
\* another category failed, and a finished run has executed every selected
\* category, each with the status its own linter outcomes give: failed for
\* issues, a timeout or an exception, passed otherwise.
OwnOutcome(c) ==
    IF lint[c].issues \/ lint[c].error \in {TimeoutMessage(DefaultTimeout), ExceptionMessage}
    THEN Failed ELSE Passed

====
